---- MODULE Spec2Model ----
(***************************************************************************)
(* Model of src/app.py, the Streamlit dashboard "Jogos Santa Casa".        *)
(*                                                                         *)
(* Streamlit re-runs the whole script top to bottom on every interaction:  *)
(* one run is a render cycle.  The only state that survives a cycle is the *)
(* process-wide cache of @st.cache_data(ttl=3600) around load_data().      *)
(* A cycle is modelled step by step (pc): load -> sidebar -> filter ->     *)
(* kpi -> weekly, and ends "stopped" (st.stop()) or "raised" (an uncaught  *)
(* exception, which Streamlit shows and which ends the run).               *)
(*                                                                         *)
(* Time is in seconds; a timestamp (column 'data' after pd.to_datetime) is *)
(* in hours since Monday 2024-01-01 00:00, a calendar day is the number of *)
(* days since 2024-01-01, so that day % 7 = date.weekday() (0 = Monday).   *)
(* Amounts are integers, a quotient is an exact fraction <<num, den>>.     *)
(***************************************************************************)
EXTENDS Integers, Sequences, FiniteSets, TLC

VARIABLES
    now,                     \* wall clock, seconds
    cache,                   \* st.cache_data store of load_data: <<>> or <<entry>>
    pc,                      \* position of the script in the current cycle
    database_url,            \* this cycle's connection string is present
    queried,                 \* pd.read_sql ran in this cycle
    df,                      \* the table load_data() returned to the script
    inicio, fim,             \* st.date_input result
    produtos_seleccionados,  \* st.multiselect result
    df_filt,
    total_vendas, total_obj, total_lucro, desvio_pct,
    df_semana,
    df_prod,
    rendered,                \* elements sent to the page in this cycle
    raised                   \* the exception that ended the cycle, "" if none

vars == <<now, cache, pc, database_url, queried, df, inicio, fim,
          produtos_seleccionados, df_filt, total_vendas, total_obj,
          total_lucro, desvio_pct, df_semana, df_prod, rendered, raised>>

-----------------------------------------------------------------------------
(* Bounds of the model *)

MaxRows == 2
MaxTicks == 2

(* Program constant: @st.cache_data(ttl=3600) *)
ttl == 3600

(* Dates.  Jan(d) is the calendar day 2024-01-d, At(day, hour) a timestamp *)
(* of that day; 2024-01-01 is a Monday.                                    *)

Jan(d) == d - 1
At(day, hour) == day * 24 + hour

-----------------------------------------------------------------------------
(* The rows the database may hold *)

Row(ts, p, v, o, l) ==
    [data |-> ts, produto |-> p, vendas |-> v, objectivo |-> o, lucro |-> l]

(* Monday 2024-01-08 at midnight, Wednesday 2024-01-10 at noon *)
Stamps == {At(Jan(8), 0), At(Jan(10), 12)}
Produtos == {"A", "B"}
Amounts == {<<100, 80, 20>>, <<500, 0, 40>>}

RowUniverse ==
    {Row(ts, p, a[1], a[2], a[3]) : ts \in Stamps, p \in Produtos, a \in Amounts}

(* The rows of the end-to-end scenario *)
Scenario ==
    << Row(At(Jan(8), 0), "A", 100, 80, 20),
       Row(At(Jan(15), 0), "A", 200, 80, 50),
       Row(At(Jan(8), 0), "B", 50, 100, 5) >>

(* Two records two weeks apart: the week of 2024-01-15 has none *)
GapWeeks ==
    << Row(At(Jan(8), 0), "A", 100, 80, 20),
       Row(At(Jan(22), 0), "A", 200, 80, 50) >>

Tables ==
    UNION {[1..n -> RowUniverse] : n \in 1..MaxRows} \cup {Scenario, GapWeeks}

-----------------------------------------------------------------------------
(* Column helpers *)

Range(s) == {s[i] : i \in 1..Len(s)}

(* Series.dt.date: the calendar day of a timestamp, time of day dropped *)
Date(ts) == ts \div 24

(* date.weekday(): 0 = Monday *)
Weekday(day) == day % 7

Min(S) == CHOOSE x \in S : \A y \in S : x <= y
Max(S) == CHOOSE x \in S : \A y \in S : y <= x

(* df['data'].min().date(), df['data'].max().date() *)
min_day(t) == Date(Min({r.data : r \in Range(t)}))
max_day(t) == Date(Max({r.data : r \in Range(t)}))

(* df['produto'].unique() *)
produtos_disponiveis(t) == {r.produto : r \in Range(t)}

(* Series.sum() of one column *)
RECURSIVE SumCol(_, _)
SumCol(t, col) ==
    IF t = <<>> THEN 0 ELSE Head(t)[col] + SumCol(Tail(t), col)

-----------------------------------------------------------------------------
(* Exact fractions <<num, den>>, den > 0, in lowest terms; den = 0 stands  *)
(* for the result of a division by zero (an error, inf or nan).            *)

Abs(x) == IF x < 0 THEN -x ELSE x

RECURSIVE Gcd(_, _)
Gcd(a, b) == IF b = 0 THEN a ELSE Gcd(b, a % b)

Frac(n, d) ==
    IF d = 0 THEN <<n, 0>>
    ELSE LET g == Gcd(Abs(n), Abs(d))
             s == IF d < 0 THEN -1 ELSE 1
         IN  <<(s * n) \div g, (s * d) \div g>>

FracTimes(q, k) == Frac(q[1] * k, q[2])

-----------------------------------------------------------------------------
(* Filter stage, lines 96-98 *)

(* a plausible slip: compares the timestamps with the picked days at       *)
(* midnight instead of the calendar days                                   *)
mascara_datas_timestamps(t, start, end) ==
    [i \in 1..Len(t) |-> start * 24 <= t[i].data /\ t[i].data <= end * 24]

(* df['data'].dt.date.between(inicio, fim): inclusive on both ends *)
mascara_datas(t, start, end) ==
    [i \in 1..Len(t) |-> start <= Date(t[i].data) /\ Date(t[i].data) <= end]

(* a plausible slip: an empty selection read as "no product filter" *)
mascara_produtos_empty_is_all(t, sel) ==
    [i \in 1..Len(t) |-> sel = {} \/ t[i].produto \in sel]

(* df['produto'].isin(produtos_seleccionados) *)
mascara_produtos(t, sel) ==
    [i \in 1..Len(t) |-> t[i].produto \in sel]

(* df.loc[mask]: the rows whose mask is True, in the table's order *)
RECURSIVE LocFrom(_, _, _)
LocFrom(t, mask, i) ==
    IF i > Len(t) THEN <<>>
    ELSE (IF mask[i] THEN <<t[i]>> ELSE <<>>) \o LocFrom(t, mask, i + 1)

loc(t, mask) == LocFrom(t, mask, 1)

(* df.loc[mascara_datas & mascara_produtos] *)
Filtered(t, start, end, sel) ==
    LET md == mascara_datas(t, start, end)
        mp == mascara_produtos(t, sel)
    IN  loc(t, [i \in 1..Len(t) |-> md[i] /\ mp[i]])

-----------------------------------------------------------------------------
(* KPIs, lines 101-105 *)

(* a plausible slip: the guard left out *)
desvio_unguarded(tv, tobj) == FracTimes(Frac(tv - tobj, tobj), 100)

(* (total_vendas - total_obj) / total_obj * 100 if total_obj else 0 *)
desvio(tv, tobj) ==
    IF tobj # 0 THEN FracTimes(Frac(tv - tobj, tobj), 100) ELSE <<0, 1>>

-----------------------------------------------------------------------------
(* Weekly totals, lines 117-122 *)

(* The frequency string of line 119, character by character.  Its second   *)
(* character is U+2011 NON-BREAKING HYPHEN, not the ASCII hyphen-minus.     *)
NonBreakingHyphen == "U+2011"
freq == <<"W", NonBreakingHyphen, "M", "O", "N">>

AsciiLetters ==
    {"A", "B", "C", "D", "E", "F", "G", "H", "I", "J", "K", "L", "M",
     "N", "O", "P", "Q", "R", "S", "T", "U", "V", "W", "X", "Y", "Z"}

(* pandas.tseries.frequencies.to_offset: an offset name is ASCII letters,   *)
(* optionally followed by "-" and an ASCII suffix; any other character is   *)
(* left over as a separator, and a separator that is not white space is     *)
(* rejected (ValueError: Invalid frequency).  Of the valid names only the   *)
(* weekly one anchored on Monday is needed here.                            *)
to_offset(f) ==
    IF \E k \in 1..Len(f) : f[k] \notin AsciiLetters \cup {"-"}
        THEN [valid |-> FALSE, weekday |-> 0]
    ELSE IF f = <<"W", "-", "M", "O", "N">>
        THEN [valid |-> TRUE, weekday |-> 0]
    ELSE [valid |-> FALSE, weekday |-> 0]

(* The label of the weekly bin of a day under pd.Grouper(freq='W-<day>'):   *)
(* weekly bins are closed and labelled on the right, so a day belongs to    *)
(* the bin named by the first anchor weekday on or after it.                *)
BinLabel(day, off) == day + ((off.weekday + 7 - Weekday(day)) % 7)

(* groupby(pd.Grouper(key='data', freq=...)).agg(vendas=('vendas','sum'))   *)
(* .reset_index() for a valid weekly offset: one row per bin from the bin   *)
(* of the earliest record to the bin of the latest one, in ascending order, *)
(* a bin without records included with sum 0; no rows for an empty table.   *)
WeeklyTotals(t, off) ==
    IF t = <<>> THEN <<>>
    ELSE LET lo == BinLabel(min_day(t), off)
             hi == BinLabel(max_day(t), off)
             InBin(b) == LET Test(r) == BinLabel(Date(r.data), off) = b
                         IN  SelectSeq(t, Test)
         IN  [k \in 1..((hi - lo) \div 7 + 1) |->
                [data |-> At(lo + 7 * (k - 1), 0),
                 vendas |-> SumCol(InBin(lo + 7 * (k - 1)), "vendas")]]

-----------------------------------------------------------------------------
(* Per-product totals, lines 136-141 *)

OfProduto(t, p) == LET Test(r) == r.produto = p IN SelectSeq(t, Test)

(* a plausible slip: agg 'first' instead of 'sum' for vendas *)
GroupByProduto_first(t) ==
    [p \in produtos_disponiveis(t) |->
        [vendas |-> Head(OfProduto(t, p)).vendas,
         objectivo |-> SumCol(OfProduto(t, p), "objectivo")]]

(* groupby('produto').agg(vendas=('vendas','sum'),                          *)
(* objectivo=('objectivo','sum')).reset_index(), as the mapping             *)
(* produto -> (vendas, objectivo); a product without rows has no entry.     *)
GroupByProduto(t) ==
    [p \in produtos_disponiveis(t) |->
        [vendas |-> SumCol(OfProduto(t, p), "vendas"),
         objectivo |-> SumCol(OfProduto(t, p), "objectivo")]]

-----------------------------------------------------------------------------
(* The render cycle *)

Init ==
    /\ now = 0
    /\ cache = <<>>
    /\ pc = "idle"
    /\ database_url = TRUE
    /\ queried = FALSE
    /\ df = <<>>
    /\ inicio = 0
    /\ fim = 0
    /\ produtos_seleccionados = {}
    /\ df_filt = <<>>
    /\ total_vendas = 0
    /\ total_obj = 0
    /\ total_lucro = 0
    /\ desvio_pct = <<0, 1>>
    /\ df_semana = <<>>
    /\ df_prod = <<>>
    /\ rendered = {}
    /\ raised = ""

(* A user interaction (or the first visit) starts a run of the script after *)
(* some time has passed; the connection string is read from this run's      *)
(* secrets and query parameters.  Lines 25-32 and 68-69 render the title    *)
(* and the sidebar header.                                                  *)
Rerun ==
    /\ pc \in {"idle", "stopped", "raised"}
    /\ \E dt \in {0, ttl \div 2, ttl} :
          /\ now + dt <= MaxTicks * (ttl \div 2)
          /\ now' = now + dt
    /\ database_url' \in BOOLEAN
    /\ pc' = "load"
    /\ queried' = FALSE
    /\ df' = <<>>
    /\ inicio' = 0
    /\ fim' = 0
    /\ produtos_seleccionados' = {}
    /\ df_filt' = <<>>
    /\ total_vendas' = 0
    /\ total_obj' = 0
    /\ total_lucro' = 0
    /\ desvio_pct' = <<0, 1>>
    /\ df_semana' = <<>>
    /\ df_prod' = <<>>
    /\ rendered' = {"title", "sidebar_header"}
    /\ raised' = ""
    /\ UNCHANGED cache

(* a plausible slip: the decorator left out, every call runs the body *)
CacheNeverValid == FALSE

(* st.cache_data(ttl=3600): the entry of load_data is served while          *)
(* now < fetched_at + ttl                                                   *)
CacheValid == cache # <<>> /\ now < cache[1].fetched_at + ttl

scriptLocals ==
    <<inicio, fim, produtos_seleccionados, df_filt, total_vendas, total_obj,
      total_lucro, desvio_pct, df_semana, df_prod>>

(* the wrapper returns (a copy of) the cached table, the body does not run *)
cache_data_hit ==
    /\ df' = cache[1].value
    /\ pc' = "sidebar"
    /\ UNCHANGED <<cache, queried, rendered, raised>>

(* a plausible slip: the error is reported but the run goes on and a table *)
(* is fetched and returned                                                  *)
load_data_missing_url_no_stop ==
    /\ rendered' = rendered \cup {"error"}
    /\ \E t \in Tables :
          /\ df' = t
          /\ cache' = <<[value |-> t, fetched_at |-> now]>>
    /\ queried' = TRUE
    /\ pc' = "sidebar"
    /\ UNCHANGED raised

(* lines 41-43: st.error(...); st.stop() -- nothing is returned or cached *)
load_data_missing_url ==
    /\ rendered' = rendered \cup {"error"}
    /\ pc' = "stopped"
    /\ UNCHANGED <<cache, queried, df, raised>>

(* lines 46-65: the query runs, the table is returned and cached *)
load_data_query ==
    /\ \E t \in Tables :
          /\ df' = t
          /\ cache' = <<[value |-> t, fetched_at |-> now]>>
    /\ queried' = TRUE
    /\ pc' = "sidebar"
    /\ UNCHANGED <<rendered, raised>>

(* line 73: df = load_data() *)
load_data ==
    /\ pc = "load"
    /\ IF CacheValid THEN cache_data_hit
       ELSE IF ~database_url THEN load_data_missing_url
       ELSE load_data_query
    /\ UNCHANGED <<now, database_url>>
    /\ UNCHANGED scriptLocals

(* The date ranges the picker can return for a table: both days within the *)
(* observed [min_day, max_day], start <= end.                               *)
DateRanges(t) ==
    {r \in (min_day(t)..max_day(t)) \X (min_day(t)..max_day(t)) : r[1] <= r[2]}

(* lines 76-93: the widgets.  st.date_input returns the pair (inicio, fim), *)
(* or a single date while the user has picked only the start of the range,  *)
(* and then the unpacking of line 79 raises ValueError.                     *)
Sidebar ==
    /\ pc = "sidebar"
    /\ \/ /\ \E r \in DateRanges(df) :
                /\ inicio' = r[1]
                /\ fim' = r[2]
          /\ produtos_seleccionados' \in SUBSET produtos_disponiveis(df)
          /\ pc' = "filter"
          /\ UNCHANGED raised
       \/ /\ raised' = "ValueError"
          /\ pc' = "raised"
          /\ UNCHANGED <<inicio, fim, produtos_seleccionados>>
    /\ UNCHANGED <<now, cache, database_url, queried, df, df_filt, total_vendas,
                   total_obj, total_lucro, desvio_pct, df_semana, df_prod,
                   rendered>>

(* a plausible slip: the filter narrows the loaded table in place, so that  *)
(* the cached table is narrowed with it                                     *)
FilterStage_in_place ==
    /\ pc = "filter"
    /\ df_filt' = Filtered(df, inicio, fim, produtos_seleccionados)
    /\ df' = df_filt'
    /\ cache' = <<[value |-> df_filt', fetched_at |-> cache[1].fetched_at]>>
    /\ pc' = "kpi"
    /\ UNCHANGED <<now, database_url, queried, inicio, fim,
                   produtos_seleccionados, total_vendas, total_obj, total_lucro,
                   desvio_pct, df_semana, df_prod, rendered, raised>>

(* lines 96-98 *)
FilterStage ==
    /\ pc = "filter"
    /\ df_filt' = Filtered(df, inicio, fim, produtos_seleccionados)
    /\ pc' = "kpi"
    /\ UNCHANGED <<now, cache, database_url, queried, df, inicio, fim,
                   produtos_seleccionados, total_vendas, total_obj, total_lucro,
                   desvio_pct, df_semana, df_prod, rendered, raised>>

(* lines 101-111: the three sums, the deviation and the four metric tiles;  *)
(* nxt is the stage that follows                                            *)
KPIStage(nxt) ==
    /\ pc = "kpi"
    /\ total_vendas' = SumCol(df_filt, "vendas")
    /\ total_obj' = SumCol(df_filt, "objectivo")
    /\ total_lucro' = SumCol(df_filt, "lucro")
    /\ desvio_pct' = desvio(total_vendas', total_obj')
    /\ rendered' = rendered \cup {"metrics"}
    /\ pc' = nxt
    /\ UNCHANGED <<now, cache, database_url, queried, df, inicio, fim,
                   produtos_seleccionados, df_filt, df_semana, df_prod, raised>>

(* lines 117-133: pd.Grouper(key='data', freq=...) parses the frequency     *)
(* when it is built; an invalid one raises ValueError before any grouping.  *)
WeeklyStage ==
    /\ pc = "weekly"
    /\ LET off == to_offset(freq)
       IN  IF off.valid
           THEN /\ df_semana' = WeeklyTotals(df_filt, off)
                /\ rendered' = rendered \cup {"line"}
                /\ pc' = "produto"
                /\ UNCHANGED raised
           ELSE /\ raised' = "ValueError"
                /\ pc' = "raised"
                /\ UNCHANGED <<df_semana, rendered>>
    /\ UNCHANGED <<now, cache, database_url, queried, df, inicio, fim,
                   produtos_seleccionados, df_filt, total_vendas, total_obj,
                   total_lucro, desvio_pct, df_prod>>

(* lines 136-159: the per-product totals, the bar chart and the pie chart *)
ProdutoStage ==
    /\ pc = "produto"
    /\ df_prod' = GroupByProduto(df_filt)
    /\ rendered' = rendered \cup {"bar", "pie"}
    /\ pc' = "table"
    /\ UNCHANGED <<now, cache, database_url, queried, df, inicio, fim,
                   produtos_seleccionados, df_filt, total_vendas, total_obj,
                   total_lucro, desvio_pct, df_semana, raised>>

(* lines 164-165: the detail table; the script ends *)
TableStage ==
    /\ pc = "table"
    /\ rendered' = rendered \cup {"table"}
    /\ pc' = "idle"
    /\ UNCHANGED <<now, cache, database_url, queried, df, inicio, fim,
                   produtos_seleccionados, df_filt, total_vendas, total_obj,
                   total_lucro, desvio_pct, df_semana, df_prod, raised>>

(* The script as it runs.  No run gets past line 119 (WeeklyStage raises),  *)
(* so the stages after it are no part of this next-state relation.          *)
Next ==
    \/ Rerun
    \/ load_data
    \/ Sidebar
    \/ FilterStage
    \/ KPIStage("weekly")
    \/ WeeklyStage

Spec == Init /\ [][Next]_vars

-----------------------------------------------------------------------------
(* The filter, KPI and per-product expressions applied to the same inputs,  *)
(* as pure functions of a loaded table and of the widgets' values.          *)

InitProd ==
    /\ now = 0
    /\ df \in Tables
    /\ cache = <<[value |-> df, fetched_at |-> 0]>>
    /\ pc = "filter"
    /\ database_url = TRUE
    /\ queried = TRUE
    /\ \E r \in DateRanges(df) :
          /\ inicio = r[1]
          /\ fim = r[2]
    /\ produtos_seleccionados \in SUBSET produtos_disponiveis(df)
    /\ df_filt = <<>>
    /\ total_vendas = 0
    /\ total_obj = 0
    /\ total_lucro = 0
    /\ desvio_pct = <<0, 1>>
    /\ df_semana = <<>>
    /\ df_prod = <<>>
    /\ rendered = {"title", "sidebar_header"}
    /\ raised = ""

NextProd ==
    \/ FilterStage
    \/ KPIStage("produto")
    \/ ProdutoStage
    \/ TableStage

SpecProd == InitProd /\ [][NextProd]_vars

-----------------------------------------------------------------------------
(* Where a cycle stands.  The metric tiles are rendered by the KPI stage    *)
(* and by nothing else, and every run starts with an empty page.            *)

KPIDone == "metrics" \in rendered
FilterDone == pc = "kpi" \/ KPIDone
WeeklyDone == KPIDone /\ pc # "weekly"
ProdutoDone == "bar" \in rendered

StageOutputs == {"metrics", "line", "bar", "pie", "table"}

(* The Monday on or before a day *)
WeekStart(day) == day - Weekday(day)

(* The indices of a loaded table that the filter inputs select: the record *)
(* lies between the start day at 00:00 and the end of the end day, and its  *)
(* product is selected.                                                     *)
Selected(t, start, end, sel) ==
    {i \in 1..Len(t) :
        /\ start * 24 <= t[i].data
        /\ t[i].data < (end + 1) * 24
        /\ t[i].produto \in sel}

(* The n-th smallest element of a set of indices *)
Nth(S, n) == CHOOSE i \in S : Cardinality({k \in S : k <= i}) = n

RECURSIVE SumVendasOver(_, _)
SumVendasOver(f, S) ==
    IF S = {} THEN 0
    ELSE LET p == CHOOSE x \in S : TRUE
         IN  f[p].vendas + SumVendasOver(f, S \ {p})

-----------------------------------------------------------------------------
(* C1: once the weekly stage has run, every filtered record lies in a      *)
(* bucket of the weekly totals whose label is the Monday on or before the   *)
(* record's date (a record of Wednesday 2024-01-10 in the bucket of Monday  *)
(* 2024-01-08).                                                             *)
C1_BucketIsWeekStart ==
    WeeklyDone =>
        \A r \in Range(df_filt) :
            \E k \in 1..Len(df_semana) :
                df_semana[k].data = At(WeekStart(Date(r.data)), 0)

(* C2: once the weekly stage has run, the weekly totals have one entry      *)
(* exactly for each week that holds a filtered record, in strictly          *)
(* ascending order of week start.                                           *)
C2_OneEntryPerWeekWithRecords ==
    WeeklyDone =>
        /\ {df_semana[k].data : k \in 1..Len(df_semana)}
              = {At(WeekStart(Date(r.data)), 0) : r \in Range(df_filt)}
        /\ \A k \in 1..(Len(df_semana) - 1) :
              df_semana[k].data < df_semana[k + 1].data

(* C3: once the filter stage has run, the filtered set is exactly the       *)
(* records of the loaded table, in the table's order, whose calendar day    *)
(* lies in [inicio, fim] whatever their time of day and whose product is    *)
(* selected.                                                                *)
C3_FilterInclusiveByDay ==
    FilterDone =>
        LET S == Selected(df, inicio, fim, produtos_seleccionados)
        IN  /\ Len(df_filt) = Cardinality(S)
            /\ \A j \in 1..Len(df_filt) : df_filt[j] = df[Nth(S, j)]

(* C3 witness: the filter kept a record dated on the end boundary at noon   *)
(* and dropped another record of the table.                                 *)
C3_Witness ==
    /\ pc = "kpi"
    /\ inicio < fim
    /\ \E r \in Range(df_filt) : r.data = At(fim, 12)
    /\ Len(df_filt) < Len(df)

(* C4 as claimed: in a cycle whose connection string is absent the loader  *)
(* reports the error, returns no table, and no stage renders.               *)
C4_AbsentUrlAlwaysHalts ==
    (~database_url /\ pc \notin {"idle", "load"}) =>
        /\ pc = "stopped"
        /\ "error" \in rendered
        /\ rendered \cap StageOutputs = {}
        /\ df = <<>>

(* C4 amended: in a cycle whose connection string is absent, either the     *)
(* loader reports the error, returns no table, and no stage renders, or the *)
(* table comes from a cache entry less than one hour old; no query runs.    *)
C4_AbsentUrlHaltsUnlessCached ==
    (~database_url /\ pc \notin {"idle", "load"}) =>
        /\ ~queried
        /\ \/ /\ pc = "stopped"
              /\ "error" \in rendered
              /\ rendered \cap StageOutputs = {}
              /\ df = <<>>
           \/ /\ cache # <<>>
              /\ now - cache[1].fetched_at < 60 * 60
              /\ df = cache[1].value
              /\ "error" \notin rendered

(* C4 witness: the loader ran without a connection string and without a    *)
(* cached table, reported the error and stopped the run.                    *)
C4_Witness ==
    /\ pc = "stopped"
    /\ ~database_url
    /\ cache = <<>>
    /\ "error" \in rendered

(* C5: a call of the loader made while the cache holds an entry less than   *)
(* one hour old returns that table, runs no query and leaves the entry      *)
(* alone; a query runs only when there is no entry or the entry is at       *)
(* least one hour old.                                                      *)
C5_CachedWithinTtl ==
    [][ (pc = "load" /\ pc' # "load") =>
          LET fresh == cache # <<>> /\ now - cache[1].fetched_at < 60 * 60
          IN  /\ fresh => (df' = cache[1].value /\ ~queried' /\ cache' = cache)
              /\ queried' => ~fresh ]_vars

(* C5 witness: half an hour after the fetch a later cycle got the cached    *)
(* table without a query.                                                   *)
C5_Witness ==
    /\ pc = "sidebar"
    /\ ~queried
    /\ cache # <<>>
    /\ now = cache[1].fetched_at + 30 * 60
    /\ df = cache[1].value

(* C6: with an empty product selection the filtered set is empty and, once  *)
(* the KPIs are computed, the three totals and the deviation are 0.         *)
C6_EmptySelectionIsEmpty ==
    (FilterDone /\ produtos_seleccionados = {}) =>
        /\ df_filt = <<>>
        /\ KPIDone =>
              /\ total_vendas = 0
              /\ total_obj = 0
              /\ total_lucro = 0
              /\ desvio_pct = <<0, 1>>

(* C6 witness: the KPIs were computed over a loaded table with nothing      *)
(* selected.                                                                *)
C6_Witness ==
    /\ KPIDone
    /\ produtos_seleccionados = {}
    /\ Len(df) = 2

(* C7: once the KPIs are computed the deviation is a finite number, equal   *)
(* to (total_vendas - total_obj) / total_obj * 100 when total_obj is not 0  *)
(* and to 0 when it is.                                                     *)
C7_DeviationDefined ==
    KPIDone =>
        /\ desvio_pct[2] > 0
        /\ total_obj # 0 =>
              desvio_pct[1] * total_obj
                 = (total_vendas - total_obj) * 100 * desvio_pct[2]
        /\ total_obj = 0 => desvio_pct[1] = 0

(* C7 witness: the KPIs were computed with target 0 and sales 500.          *)
C7_Witness ==
    /\ KPIDone
    /\ total_obj = 0
    /\ total_vendas = 500

C9_EndToEndScenario ==
    ( /\ pc \in {"idle", "raised"}
      /\ df = Scenario
      /\ inicio = Jan(8)
      /\ fim = Jan(15)
      /\ produtos_seleccionados = {"A", "B"} ) =>
        /\ total_vendas = 350
        /\ total_obj = 260
        /\ desvio_pct[1] * 260 = (350 - 260) * 100 * desvio_pct[2]
        /\ df_semana = << [data |-> At(Jan(8), 0), vendas |-> 150],
                          [data |-> At(Jan(15), 0), vendas |-> 200] >>
        /\ DOMAIN df_prod = {"A", "B"}
        /\ df_prod["A"] = [vendas |-> 300, objectivo |-> 160]
        /\ df_prod["B"] = [vendas |-> 50, objectivo |-> 100]

(* C10: the cache entry is replaced only by a fetch on a cache miss, never  *)
(* by a later stage; in every cycle the script's table is the cached one,   *)
(* and the filtered set holds only records of it and is determined by it    *)
(* and by the current widget values.                                        *)
C10_LoadedTableReadOnly ==
    /\ [](FilterDone =>
            /\ cache # <<>>
            /\ df = cache[1].value
            /\ Range(df_filt) \subseteq Range(cache[1].value)
            /\ df_filt
                 = Filtered(cache[1].value, inicio, fim, produtos_seleccionados))
    /\ [][cache' # cache => (pc = "load" /\ queried' /\ ~queried)]_vars

(* C10 witness: a later cycle, served from the cache, filtered the table    *)
(* down to a proper part of it.                                             *)
C10_Witness ==
    /\ FilterDone
    /\ ~queried
    /\ df_filt # <<>>
    /\ Len(df_filt) < Len(cache[1].value)

====
